---- MODULE Spec2Model ----
(***************************************************************************)
(* Crawl orchestration of the Idealista.pt scraper: IdealistaScraper's     *)
(* scrapePage, scrapeLocation and scrapeLocations (scraper.ts), driven by  *)
(* the page outcomes the site, the browser and the stealth layer produce.  *)
(***************************************************************************)
EXTENDS Integers, Sequences, FiniteSets, TLC

(* ---------------------------------------------------------------- bounds *)

\* Largest page cap (maxPages) a scrapeLocation job is given.
MaxPageCap == 3
\* Largest page cap (maxPagesPerLocation) a scrapeLocations job is given.
MaxPagesPerLocation == 1
\* Largest record limit a job is given.
MaxLimit == 2
\* Largest number of items in one page's elementList.
MaxItems == 2
\* Largest currentPage / totalPages value a snapshot carries.
MaxTotalPages == 2

(* ------------------------------------------------------- JavaScript values *)

\* An optional number: undefined, or a number.
Undefined == [set |-> FALSE, val |-> 0]
Num(v) == [set |-> TRUE, val |-> v]

\* JavaScript truthiness of an optional number: undefined and 0 are falsy.
Truthy(x) == x.set /\ x.val # 0

Min(a, b) == IF a < b THEN a ELSE b
Max(a, b) == IF a > b THEN a ELSE b

\* Array.prototype.slice(0, end): a negative end counts from the back.
SliceTo(s, end) ==
    LET e == IF end < 0 THEN Max(Len(s) + end, 0) ELSE Min(end, Len(s))
    IN  SubSeq(s, 1, e)

\* Array.prototype.indexOf, 1-based; 0 when absent.
IndexOf(s, x) ==
    IF \E i \in 1..Len(s) : s[i] = x
    THEN CHOOSE i \in 1..Len(s) : s[i] = x /\ \A j \in 1..(i - 1) : s[j] # x
    ELSE 0

(* ------------------------------------------------------------------ jobs *)

\* The option values a caller may pass as limit: absent, or any integer
\* (the CLI hands over parseInt's result unchecked).
LimitOptions == {Undefined} \cup {Num(v) : v \in (-1)..MaxLimit}

\* The page caps a caller may pass (0 is not rejected anywhere).
PageCaps == 0..MaxPageCap
PageCapsPerLocation == 0..MaxPagesPerLocation

LocationLists ==
    { <<>>, <<"lisboa">>, <<"lisboa", "porto">>, <<"lisboa", "lisboa">> }

Jobs ==
    [entry : {"scrapeLocation"}, locations : {<<"lisboa">>},
     maxPages : PageCaps, limit : LimitOptions]
    \cup
    [entry : {"scrapeLocations"}, locations : LocationLists,
     maxPages : PageCapsPerLocation, limit : LimitOptions]

(* ------------------------------------------------------------- documents *)

\* What page.content() can hold: the #__NEXT_DATA__ container may be absent,
\* empty, not JSON, or JSON carrying searchData with its elementList,
\* currentPage and totalPages (0 stands for an absent or zero field).
NoStateDocuments ==
    [container : {"absent", "empty", "malformed"},
     items : {0}, currentPage : {0}, totalPages : {0}]

StateDocuments ==
    [container : {"json"}, items : 0..MaxItems,
     currentPage : 0..MaxTotalPages, totalPages : 0..MaxTotalPages]

Documents == NoStateDocuments \cup StateDocuments

\* The document of a defensive challenge: the challenge replaces the
\* listing content, so the page carries no embedded state.
ChallengeDocument ==
    [container |-> "absent", items |-> 0, currentPage |-> 0, totalPages |-> 0]

\* JSON.parse(jsonText): the parsed value, or a SyntaxError thrown on text
\* that is not JSON.
JSONparse(doc) == IF doc.container = "json" THEN "data" ELSE "SyntaxError"

\* Mutant: the error of the try block leaves extractNextData.
uncaught(outcome) == outcome

\* catch (error) { ...; return null; }
caught(outcome) == IF outcome = "SyntaxError" THEN "null" ELSE outcome

\* The steps of extractNextData: null when the script tag is not found, null
\* when its text is empty, else what JSON.parse gives, all inside one try.
extraction(doc) ==
    caught(IF doc.container = "absent" THEN "null"
           ELSE IF doc.container = "empty" THEN "null"
           ELSE JSONparse(doc))

\* extractNextData: null (FALSE here) unless the container parses.
extractNextData(doc) == extraction(doc) = "data"

\* hasNextPage: currentPage || 1 < totalPages || 1.
hasNextPage(doc) ==
    LET currentPage == IF doc.currentPage # 0 THEN doc.currentPage ELSE 1
        totalPages  == IF doc.totalPages # 0 THEN doc.totalPages ELSE 1
    IN  currentPage < totalPages

\* const properties = parseNextData(nextData, location): items counts the
\* elements of elementList that parseNextData keeps, in order.  A record is
\* named by the location run, the page and the position it came from.
pageProperties(doc, loc, pageNumber) ==
    [i \in 1..doc.items |-> <<loc, pageNumber, i>>]

(* ------------------------------------------------------------ scrapePage *)

\* The stealth layer's verdict on a navigated page: no challenge left
\* (none met, or met and mitigated), or a challenge still unresolved after
\* the mitigation pass, which it reports either by returning (scrapePage
\* discards the value) or by throwing an error whose message says 'blocked'.
bypassDataDome == {"clear", "unresolvedReturns", "unresolvedThrows"}

\* What the browser can do in one scrapePage call: carry every step, throw
\* in page.goto (before the stealth layer looks at the page), or throw in a
\* step after bypassDataDome returned (humanScroll, page.content).
Transport == {"ok", "gotoFails", "laterFails"}

\* What a scrapePage call did: it threw (and whether the error's message
\* contains 'blocked'), or it returned a ScrapeResult (properties,
\* currentPage, hasNextPage; totalFound is read nowhere in the crawl and is
\* left out).  challenge and container record what the call met.
NoResult ==
    [threw |-> FALSE, blocked |-> FALSE, challenge |-> "none",
     container |-> "none", properties |-> <<>>, currentPage |-> 0,
     hasNextPage |-> FALSE]

Thrown(mentionsBlocked, challenge) ==
    [threw |-> TRUE, blocked |-> mentionsBlocked, challenge |-> challenge,
     container |-> "none", properties |-> <<>>, currentPage |-> 0,
     hasNextPage |-> FALSE]

Returned(challenge, container, properties, pageNumber, more) ==
    [threw |-> FALSE, blocked |-> FALSE, challenge |-> challenge,
     container |-> container, properties |-> properties,
     currentPage |-> pageNumber, hasNextPage |-> more]

\* Mutant: a page without state reported as having a next page.
NoDataResultMore(challenge, container, pageNumber) ==
    Returned(challenge, container, <<>>, pageNumber, TRUE)

\* The ScrapeResult of a page whose document yields no state.
NoDataResult(challenge, container, pageNumber) ==
    Returned(challenge, container, <<>>, pageNumber, FALSE)

\* if (!this.page) throw new Error('Browser not initialized. Call
\* initialize() first.'): how scrapePage starts on the page handle it finds.
guard(handle) == IF handle THEN "page.goto" ELSE "Browser not initialized"

\* scrapePage(location, transactionType, pageNumber) on an initialized or
\* uninitialized scraper, given what the browser, the stealth layer and the
\* site do.
scrapePage(ready, transport, challenge, doc, loc, pageNumber) ==
    IF guard(ready) = "Browser not initialized" THEN Thrown(FALSE, "none")
    ELSE IF transport = "gotoFails" THEN Thrown(FALSE, "none")
    ELSE IF challenge = "unresolvedThrows" THEN Thrown(TRUE, "unresolved")
    ELSE LET state == IF challenge = "clear" THEN "clear" ELSE "unresolved"
         IN  IF transport = "laterFails" THEN Thrown(FALSE, state)
             ELSE IF extraction(doc) = "SyntaxError"
             THEN [Thrown(FALSE, state) EXCEPT !.container = doc.container]
             ELSE IF ~extractNextData(doc)
             THEN NoDataResult(state, doc.container, pageNumber)
             ELSE Returned(state, doc.container,
                           pageProperties(doc, loc, pageNumber),
                           pageNumber, hasNextPage(doc))

\* The documents the site serves under a challenge verdict.
Served(challenge) ==
    IF challenge = "clear" THEN Documents ELSE {ChallengeDocument}

(* ----------------------------------------------------------------- state *)

VARIABLES
    job,            \* the entry call and its arguments
    ready,          \* this.page is set (initialize() has run)
    pc,             \* where the run is
    locIdx,         \* scrapeLocations: position of the for-of loop
    total,          \* scrapeLocations: allProperties
    locLimit,       \* scrapeLocation: the limit option it was given
    page,           \* scrapeLocation: the loop variable
    allProperties,  \* scrapeLocation: allProperties
    last,           \* what the latest scrapePage call did
    returned,       \* what the latest scrapeLocation call returned
    output,         \* what the entry call returned
    fetched,        \* history: page indices requested in this location run
    stop,           \* history: why this location run left its page loop
    started,        \* history: positions of the locations crawled so far
    outcomes,       \* history: what each scrapeLocation call returned, and why
    paced,          \* history: a pacing delay ran since the latest fetch
    blockedAt,      \* history: first page of this location run whose
                    \* challenge stayed unresolved (0: none)
    clock,          \* the wall clock, in milliseconds (Date.now())
    call,           \* the latest call of a parser or transformer function
    prev,           \* the parsePropertyItem call before it, if any
    proc            \* the command-line process: where main is, its options,
                    \* what it stored and printed, how it ended

vars == <<job, ready, pc, locIdx, total, locLimit, page, allProperties, last,
          returned, output, fetched, stop, started, outcomes, paced,
          blockedAt, clock, call, prev, proc>>

\* No command-line process: the scraper is driven as a library.
NoProcess ==
    [mpc |-> "none", dryRun |-> FALSE, transactionType |-> "sale",
     exit |-> Undefined, interrupted |-> "none", stored |-> <<>>,
     dumped |-> <<>>, closed |-> FALSE, released |-> {}, redis |-> "off",
     signal |-> "none", held |-> <<>>]

\* What the crawl's control flow never touches.
nonCrawlVars == <<clock, call, prev, proc>>

\* No function has been called.
NoCall ==
    [fn |-> "none", arg |-> <<>>, returned |-> FALSE, at |-> 0, out |-> "none"]

Init ==
    /\ job \in Jobs
    /\ ready \in BOOLEAN
    /\ pc = "main"
    /\ locIdx = 0
    /\ total = <<>>
    /\ locLimit = Undefined
    /\ page = 0
    /\ allProperties = <<>>
    /\ last = NoResult
    /\ returned = <<>>
    /\ output = <<>>
    /\ fetched = <<>>
    /\ stop = "none"
    /\ started = <<>>
    /\ outcomes = <<>>
    /\ paced = FALSE
    /\ blockedAt = 0
    /\ clock = 0
    /\ call = NoCall
    /\ prev = NoCall
    /\ proc = NoProcess

(* -------------------------------------------------------- scrapeLocation *)

\* Mutant: the limit check with > for >=.
limitReachedLate(limit, count) == Truthy(limit) /\ count > limit.val

\* limit && allProperties.length >= limit
limitReached(limit, count) == Truthy(limit) /\ count >= limit.val

\* Mutant: the loop's condition one page too far.
loopContinuesPastCap(p, maxPages) == p <= maxPages + 1

\* The for loop's condition: page <= maxPages.
loopContinues(p, maxPages) == p <= maxPages

\* Mutant: the increment skips a page.
nextPageSkips(p) == p + 2

\* The for loop's increment: page++.
nextPage(p) == p + 1

\* Mutant: the catch block stops on every error.
isBlockedAlways(result) == result.threw

\* error instanceof Error && error.message.includes('blocked')
isBlocked(result) == result.threw /\ result.blocked

\* Mutant: the slice without the check that a limit is set.
trimUnguarded(all, limit) == SliceTo(all, limit.val)

\* limit ? allProperties.slice(0, limit) : allProperties
trim(all, limit) == IF Truthy(limit) THEN SliceTo(all, limit.val) ELSE all

\* Mutant: the page's records are put in front of the accumulator.
unshift(all, properties) == properties \o all

\* allProperties.push(...result.properties)
push(all, properties) == all \o properties

\* Entry of scrapeLocation for the location at position i, with a limit.
EnterLocation(i, limit) ==
    /\ locLimit' = limit
    /\ allProperties' = <<>>
    /\ page' = 1
    /\ last' = NoResult
    /\ fetched' = <<>>
    /\ stop' = "none"
    /\ paced' = FALSE
    /\ blockedAt' = 0
    /\ started' = Append(started, i)
    /\ pc' = "pageLoop"

\* main calls scrapeLocation for a single location.
CallScrapeLocation ==
    /\ pc = "main"
    /\ job.entry = "scrapeLocation"
    /\ EnterLocation(1, job.limit)
    /\ locIdx' = 1
    /\ UNCHANGED <<job, ready, total, returned, output, outcomes>>
    /\ UNCHANGED nonCrawlVars

\* The page loop's test.
PageLoop ==
    /\ pc = "pageLoop"
    /\ IF loopContinues(page, job.maxPages)
       THEN pc' = "scrapePage" /\ stop' = stop
       ELSE pc' = "finish" /\ stop' = "pageCap"
    /\ UNCHANGED <<job, ready, locIdx, total, locLimit, page, allProperties,
                   last, returned, output, fetched, started, outcomes, paced,
                   blockedAt>>
    /\ UNCHANGED nonCrawlVars

\* await this.scrapePage(location, transactionType, page)
ScrapePage ==
    /\ pc = "scrapePage"
    /\ \E transport \in Transport, challenge \in bypassDataDome :
         \E doc \in Served(challenge) :
            last' = scrapePage(ready, transport, challenge, doc, locIdx, page)
    /\ fetched' = Append(fetched, page)
    /\ paced' = FALSE
    /\ blockedAt' = IF blockedAt = 0 /\ last'.challenge = "unresolved"
                    THEN page ELSE blockedAt
    /\ pc' = IF last'.threw THEN "caught" ELSE "gotResult"
    /\ UNCHANGED <<job, ready, locIdx, total, locLimit, page, allProperties,
                   returned, output, stop, started, outcomes>>
    /\ UNCHANGED nonCrawlVars

\* The try block after scrapePage returned: push, limit check, next-page
\* check, then the inter-page delay or the loop's increment.
HandleResult ==
    /\ pc = "gotResult"
    /\ allProperties' = push(allProperties, last.properties)
    /\ IF limitReached(locLimit, Len(allProperties'))
       THEN pc' = "finish" /\ stop' = "limit" /\ page' = page
       ELSE IF ~last.hasNextPage
       THEN pc' = "finish" /\ stop' = "noMorePages" /\ page' = page
       ELSE IF page < job.maxPages
       THEN pc' = "pagePacing" /\ stop' = stop /\ page' = page
       ELSE pc' = "pageLoop" /\ stop' = stop /\ page' = nextPage(page)
    /\ UNCHANGED <<job, ready, locIdx, total, locLimit, last, returned,
                   output, fetched, started, outcomes, paced, blockedAt>>
    /\ UNCHANGED nonCrawlVars

\* await sleep(delay) between pages is over; the loop increments.
PagePacing ==
    /\ pc = "pagePacing"
    /\ paced' = TRUE
    /\ page' = nextPage(page)
    /\ pc' = "pageLoop"
    /\ UNCHANGED <<job, ready, locIdx, total, locLimit, allProperties, last,
                   returned, output, fetched, stop, started, outcomes,
                   blockedAt>>
    /\ UNCHANGED nonCrawlVars

\* The catch block: stop on a 'blocked' error, else go on with the next page.
HandleError ==
    /\ pc = "caught"
    /\ IF isBlocked(last)
       THEN pc' = "finish" /\ stop' = "blocked" /\ page' = page
       ELSE pc' = "pageLoop" /\ stop' = stop /\ page' = nextPage(page)
    /\ UNCHANGED <<job, ready, locIdx, total, locLimit, allProperties, last,
                   returned, output, fetched, started, outcomes, paced,
                   blockedAt>>
    /\ UNCHANGED nonCrawlVars

\* After the loop: trim to the limit and return to the caller.
Finish ==
    /\ pc = "finish"
    /\ returned' = trim(allProperties, locLimit)
    /\ outcomes' = Append(outcomes, [records |-> returned', stop |-> stop])
    /\ IF job.entry = "scrapeLocation"
       THEN pc' = "done" /\ output' = returned'
       ELSE pc' = "afterLocation" /\ output' = output
    /\ UNCHANGED <<job, ready, locIdx, total, locLimit, page, allProperties,
                   last, fetched, stop, started, paced, blockedAt>>
    /\ UNCHANGED nonCrawlVars

(* ------------------------------------------------------- scrapeLocations *)

\* Mutant: every location is handed the whole overall limit.
locationLimitWhole(limit, count) ==
    IF Truthy(limit) THEN Num(limit.val) ELSE Undefined

\* limit ? limit - allProperties.length : undefined
locationLimit(limit, count) ==
    IF Truthy(limit) THEN Num(limit.val - count) ELSE Undefined

\* Mutant: the overall limit check without the check that a limit is set.
overallLimitUnguarded(limit, count) == count >= limit.val

\* limit && allProperties.length >= limit, on the overall list
overallLimitReached(limit, count) == Truthy(limit) /\ count >= limit.val

\* locations.indexOf(location) < locations.length - 1
delayAfter(locations, i) ==
    IndexOf(locations, locations[i]) < Len(locations)

\* main calls scrapeLocations.
CallScrapeLocations ==
    /\ pc = "main"
    /\ job.entry = "scrapeLocations"
    /\ locIdx' = 1
    /\ total' = <<>>
    /\ pc' = "locLoop"
    /\ UNCHANGED <<job, ready, locLimit, page, allProperties, last, returned,
                   output, fetched, stop, started, outcomes, paced, blockedAt>>
    /\ UNCHANGED nonCrawlVars

\* The for-of loop: the next location's scrapeLocation call, or the return.
LocationLoop ==
    /\ pc = "locLoop"
    /\ IF locIdx <= Len(job.locations)
       THEN /\ EnterLocation(locIdx, locationLimit(job.limit, Len(total)))
            /\ output' = output
       ELSE /\ pc' = "done"
            /\ output' = total
            /\ UNCHANGED <<locLimit, allProperties, page, last, fetched, stop,
                           paced, started,
                           blockedAt>>
    /\ UNCHANGED <<job, ready, locIdx, total, returned, outcomes>>
    /\ UNCHANGED nonCrawlVars

\* After scrapeLocation returned: push, overall limit check, then the
\* inter-location delay or the next location.
AfterLocation ==
    /\ pc = "afterLocation"
    /\ total' = total \o returned
    /\ IF overallLimitReached(job.limit, Len(total'))
       THEN pc' = "done" /\ output' = total' /\ locIdx' = locIdx
       ELSE IF delayAfter(job.locations, locIdx)
       THEN pc' = "locPacing" /\ output' = output /\ locIdx' = locIdx
       ELSE pc' = "locLoop" /\ output' = output /\ locIdx' = locIdx + 1
    /\ UNCHANGED <<job, ready, locLimit, page, allProperties, last, returned,
                   fetched, stop, started, outcomes, paced, blockedAt>>
    /\ UNCHANGED nonCrawlVars

\* await sleep(3000 + Math.random() * 2000) is over.
LocationPacing ==
    /\ pc = "locPacing"
    /\ locIdx' = locIdx + 1
    /\ pc' = "locLoop"
    /\ UNCHANGED <<job, ready, total, locLimit, page, allProperties, last,
                   returned, output, fetched, stop, started, outcomes, paced,
                   blockedAt>>
    /\ UNCHANGED nonCrawlVars

(* --------------------------------------------------------------- strings *)

\* An optional string (floor?: string): undefined, or a string.
UndefinedStr == [set |-> FALSE, val |-> ""]
Str(v) == [set |-> TRUE, val |-> v]

\* JavaScript truthiness of an optional string: undefined and '' are falsy.
TruthyStr(x) == x.set /\ x.val # ""

\* a || b on optional strings.
OrStr(a, b) == IF TruthyStr(a) THEN a ELSE b

\* The letters String.prototype.toLowerCase changes, and what it makes of
\* them, position by position.
UpperCase == "ABCDEFGHIJKLMNOPQRSTUVWXYZÁÀÂÃÉÊÍÓÔÕÚÇ"
LowerCase == "abcdefghijklmnopqrstuvwxyzáàâãéêíóôõúç"

\* s.charAt(i - 1): positions count from 1 here.
charAt(s, i) == SubSeq(s, i, i)

\* The characters toLowerCase changes, and what it makes of each.
UpperChars == {charAt(UpperCase, k) : k \in 1..Len(UpperCase)}
LowerOf ==
    [c \in UpperChars |->
        charAt(LowerCase, CHOOSE k \in 1..Len(UpperCase) :
                              charAt(UpperCase, k) = c)]

\* toLowerCase on one character.
lowerChar(c) == IF c \in UpperChars THEN LowerOf[c] ELSE c

RECURSIVE toLowerCase(_)
\* String.prototype.toLowerCase
toLowerCase(s) ==
    IF s = "" THEN ""
    ELSE lowerChar(charAt(s, 1)) \o toLowerCase(SubSeq(s, 2, Len(s)))

\* String.prototype.includes
includes(s, t) ==
    \E i \in 1..(Len(s) - Len(t) + 1) : SubSeq(s, i, i + Len(t) - 1) = t

\* The white space String.prototype.trim removes.
isSpace(c) == c \in {" ", "\t", "\n"}

RECURSIVE trimStart(_)
trimStart(s) ==
    IF s # "" /\ isSpace(charAt(s, 1))
    THEN trimStart(SubSeq(s, 2, Len(s))) ELSE s

RECURSIVE trimEnd(_)
trimEnd(s) ==
    IF s # "" /\ isSpace(charAt(s, Len(s)))
    THEN trimEnd(SubSeq(s, 1, Len(s) - 1)) ELSE s

\* String.prototype.trim
strTrim(s) == trimEnd(trimStart(s))

\* The decimal digits, by value.
DecimalDigits == "0123456789"

\* \d
isDigit(c) == \E d \in 1..Len(DecimalDigits) : charAt(DecimalDigits, d) = c

digitValue(c) ==
    (CHOOSE d \in 1..Len(DecimalDigits) : charAt(DecimalDigits, d) = c) - 1

\* s.match(/(\d+)/): the first maximal run of digits of s, '' when none.
matchDigits(s) ==
    LET starts == {i \in 1..Len(s) : isDigit(charAt(s, i))}
    IN  IF starts = {} THEN ""
        ELSE LET from == CHOOSE i \in starts : \A j \in starts : i <= j
                 to == CHOOSE i \in from..Len(s) :
                          /\ \A j \in from..i : isDigit(charAt(s, j))
                          /\ i < Len(s) => ~isDigit(charAt(s, i + 1))
             IN  SubSeq(s, from, to)

RECURSIVE parseInt(_)
\* parseInt(digits, 10) on a run of digits.
parseInt(digits) ==
    IF digits = "" THEN 0
    ELSE parseInt(SubSeq(digits, 1, Len(digits) - 1)) * 10
         + digitValue(charAt(digits, Len(digits)))

RECURSIVE toString(_)
\* String(n) for a natural number n.
toString(n) ==
    IF n < 10 THEN charAt(DecimalDigits, n + 1)
    ELSE toString(n \div 10) \o charAt(DecimalDigits, (n % 10) + 1)

(* ---------------------------------------------------- parser, transformer *)

\* Mutant: the number is looked for before the named floors.
parseFloorNumberFirst(floor) ==
    IF ~TruthyStr(floor) THEN Undefined
    ELSE LET cleaned == strTrim(toLowerCase(floor.val))
             digits == matchDigits(cleaned)
         IN  IF digits # "" THEN Num(parseInt(digits))
             ELSE IF \/ includes(cleaned, "r/c") \/ includes(cleaned, "rés")
                     \/ includes(cleaned, "térr")
             THEN Num(0)
             ELSE IF includes(cleaned, "cave") \/ includes(cleaned, "subsolo")
             THEN Num(-1)
             ELSE IF includes(cleaned, "sótão") \/ includes(cleaned, "ático")
             THEN Num(99)
             ELSE Undefined

\* parseFloor(floor?: string): number | undefined
parseFloor(floor) ==
    IF ~TruthyStr(floor) THEN Undefined
    ELSE LET cleaned == strTrim(toLowerCase(floor.val))
             digits == matchDigits(cleaned)
         IN  IF \/ includes(cleaned, "r/c") \/ includes(cleaned, "rés")
                \/ includes(cleaned, "térr")
             THEN Num(0)
             ELSE IF includes(cleaned, "cave") \/ includes(cleaned, "subsolo")
             THEN Num(-1)
             ELSE IF includes(cleaned, "sótão") \/ includes(cleaned, "ático")
             THEN Num(99)
             ELSE IF digits # "" THEN Num(parseInt(digits))
             ELSE Undefined

\* The if chain of mapPropertyType, top to bottom: the kind each test
\* returns and the substrings it looks for.
PropertyTypeChain == <<
    [kind |-> "apartment", terms |-> {"flat", "apartamento", "apartment"}],
    [kind |-> "villa", terms |-> {"moradia", "villa", "chalet"}],
    [kind |-> "house", terms |-> {"house", "casa"}],
    [kind |-> "penthouse", terms |-> {"penthouse", "cobertura"}],
    [kind |-> "duplex", terms |-> {"duplex"}],
    [kind |-> "studio", terms |-> {"studio", "t0"}],
    [kind |-> "loft", terms |-> {"loft"}],
    [kind |-> "office", terms |-> {"office", "escritório"}],
    [kind |-> "commercial", terms |-> {"premises", "loja"}],
    [kind |-> "garage", terms |-> {"garage", "garagem"}],
    [kind |-> "parking", terms |-> {"parking", "estacionamento"}],
    [kind |-> "building", terms |-> {"building", "prédio"}],
    [kind |-> "land", terms |-> {"land", "terreno"}] >>

\* The tests of the chain that succeed on the lower-cased text.
chainHits(type) ==
    {k \in 1..Len(PropertyTypeChain) :
        \E term \in PropertyTypeChain[k].terms : includes(type, term)}

\* Mutant: the last test of the chain that succeeds decides.
lastHit(hits) == CHOOSE k \in hits : \A j \in hits : j <= k

\* The first test of the chain that succeeds decides.
firstHit(hits) == CHOOSE k \in hits : \A j \in hits : k <= j

\* (propertyType || typology || '').toLowerCase()
typeText(propertyType, typology) ==
    toLowerCase(OrStr(OrStr(propertyType, typology), Str("")).val)

\* mapPropertyType(propertyType?: string, typology?: string): string
mapPropertyType(propertyType, typology) ==
    LET hits == chainHits(typeText(propertyType, typology))
    IN  IF hits = {} THEN "other" ELSE PropertyTypeChain[firstHit(hits)].kind

\* The substrings extractAmenities looks for, flag by flag.
AmenityTerms == [
    has_parking |-> {"parking", "garagem", "estacionamento", "garage"},
    has_garden |-> {"garden", "jardim"},
    has_balcony |-> {"balcony", "balcão", "varanda"},
    has_terrace |-> {"terrace", "terraço"},
    has_pool |-> {"pool", "piscina", "swimming"},
    has_elevator |-> {"elevator", "elevador", "lift", "ascensor"},
    has_garage |-> {"garage", "garagem"},
    has_basement |-> {"basement", "cave", "subsolo"},
    has_fireplace |-> {"fireplace", "lareira", "chimenea"},
    is_furnished |-> {"furnished", "mobilado", "amueblado"},
    is_new_construction |-> {"new development", "nova construção",
                             "obra nova"},
    is_luxury |-> {"luxury", "luxo", "premium"} ]

\* Mutant: the labels are matched as they come, not lower-cased.
featuresAsGiven(features) == features

\* features.map((f) => f.toLowerCase())
featuresLower(features) ==
    [i \in 1..Len(features) |-> toLowerCase(features[i])]

\* extractAmenities(features: string[]): PropertyAmenities
extractAmenities(features) ==
    LET lower == featuresLower(features)
    IN  [flag \in DOMAIN AmenityTerms |->
            \E i \in 1..Len(lower) :
                \E term \in AmenityTerms[flag] : includes(lower[i], term)]

SOURCE == "idealista_portugal"
COUNTRY == "Portugal"
CURRENCY == "EUR"

\* a || b on optional numbers.
OrNum(a, b) == IF Truthy(a) THEN a ELSE b

\* Three decimal digits, zero-padded.
pad3(n) ==
    (IF n < 10 THEN "00" ELSE IF n < 100 THEN "0" ELSE "") \o toString(n)

\* new Date(ms).toISOString(), for the first seconds of the epoch.
toISOString(ms) ==
    "1970-01-01T00:00:0" \o toString(ms \div 1000) \o "."
        \o pad3(ms % 1000) \o "Z"

\* item.price || item.priceInfo?.price?.amount || 0
itemPrice(item) == OrNum(OrNum(item.price, item.amount), Num(0)).val

\* Mutant: the identifier without the synthesized fallback.
itemIdNoFallback(item, now) ==
    OrStr(item.propertyCode, item.externalReference).val

\* item.propertyCode || item.externalReference || `idealista-${Date.now()}`
itemId(item, now) ==
    OrStr(OrStr(item.propertyCode, item.externalReference),
          Str("idealista-" \o toString(now))).val

\* parsePropertyItem(item, location), called when the clock reads now.
parsePropertyItem(item, location, now) ==
    [ id |-> itemId(item, now),
      source |-> SOURCE,
      price |-> itemPrice(item),
      currency |-> CURRENCY,
      propertyType |-> mapPropertyType(item.propertyType, item.typology),
      city |-> OrStr(item.municipality, Str(location)).val,
      country |-> COUNTRY,
      floor |-> parseFloor(item.floor),
      scrapedAt |-> toISOString(now) ]

\* An element of elementList is whatever JSON.parse made of the page's text:
\* null, or an object whose floor may be a number instead of the string the
\* IdealistaPropertyItem interface declares.  parsePropertyItem throws a
\* TypeError on null (item.price) and on a truthy floor that is no string
\* (floor.toLowerCase in parseFloor); a floor of 0 is falsy and gives
\* undefined.
TypeError(element) == element.null \/ Truthy(element.floorNumber)

\* .filter((p): p is Property => p !== null)
notNull(parsed) == parsed.ok

\* parseNextData(nextData, location): every element is parsed inside its own
\* try block, at the moment nows[i]; an element whose parse throws becomes
\* null, and the nulls are filtered out.
parseNextData(elementList, location, nows) ==
    LET parsed == [i \in 1..Len(elementList) |->
                     IF TypeError(elementList[i])
                     THEN [ok |-> FALSE, property |-> <<>>]
                     ELSE [ok |-> TRUE,
                           property |-> parsePropertyItem(
                               elementList[i].item, location, nows[i])]]
        kept == SelectSeq(parsed, notNull)
    IN  [i \in 1..Len(kept) |-> kept[i].property]

\* extractSearchMetadata(nextData): currentPage || actualPage || 1 and
\* totalPages || 1 (total is left out).
extractSearchMetadata(searchData) ==
    [ currentPage |->
          IF searchData.currentPage # 0 THEN searchData.currentPage
          ELSE IF searchData.actualPage # 0 THEN searchData.actualPage
          ELSE 1,
      totalPages |->
          IF searchData.totalPages # 0 THEN searchData.totalPages ELSE 1 ]

\* How many equal steps the interval [0, 1) of Math.random() is cut into.
RandomSteps == 4

\* Mutant: the random part spans maxDelayMs instead of the difference.
delayFromZero(minDelayMs, maxDelayMs, random) ==
    (random * maxDelayMs + RandomSteps * minDelayMs) \div RandomSteps

\* Math.floor(Math.random() * (maxDelayMs - minDelayMs) + minDelayMs), where
\* Math.random() gave random / RandomSteps.
delay(minDelayMs, maxDelayMs, random) ==
    (random * (maxDelayMs - minDelayMs) + RandomSteps * minDelayMs)
        \div RandomSteps

(* ------------------------------------------- inputs of the pure functions *)

\* How many fragments a floor or type text is made of, at most.
MaxFragments == 2
\* How many labels a feature list holds, at most.
MaxLabels == 2
\* The largest price, and the largest amount below zero, of an item.
MaxPrice == 1
\* The latest reading of the clock, in milliseconds.
MaxClock == 2

\* The largest delay option, in milliseconds.
MaxDelayMs == 3

RECURSIVE Lists(_, _)
\* The sequences of at most n of the elements.
Lists(elements, n) ==
    IF n = 0 THEN {<<>>}
    ELSE LET shorter == Lists(elements, n - 1)
         IN  shorter \cup {Append(l, e) : l \in shorter, e \in elements}

RECURSIVE Join(_, _)
\* The texts of the named fragments, one after the other.
Join(texts, names) ==
    IF names = <<>> THEN ""
    ELSE texts[Head(names)] \o Join(texts, Tail(names))

\* An input text is kept as the names of the fragments it is made of, or as
\* absent; Text gives the optional string itself.
Absent == [set |-> FALSE, val |-> <<>>]
Made(names) == [set |-> TRUE, val |-> names]
Text(texts, input) ==
    IF input.set THEN Str(Join(texts, input.val)) ELSE UndefinedStr

\* Pieces of floor descriptions, by name: the named floors in mixed case,
\* numbers, and text that names no floor.
FloorFragments ==
    [ rc |-> "R/C", res |-> "Rés", terreo |-> "térreo", cave |-> "Cave",
      subsolo |-> "Subsolo", sotao |-> "Sótão", atico |-> "ático",
      three |-> "3", twelve |-> "12", andar |-> "º andar", space |-> " ",
      x |-> "x" ]

FloorInputs ==
    {Absent} \cup {Made(l) : l \in Lists(DOMAIN FloorFragments, MaxFragments)}

\* Pieces of property type texts, by name: synonyms of several kinds in
\* mixed case, and text that names no kind.
TypeFragments ==
    [ flat |-> "Flat", moradia |-> "Moradia", house |-> "house",
      penthouse |-> "Penthouse", cobertura |-> "Cobertura",
      duplex |-> "Duplex", t0 |-> "T0", escritorio |-> "Escritório",
      garagem |-> "Garagem", terreno |-> "Terreno", x |-> "x" ]

PropertyTypeInputs ==
    {Absent} \cup {Made(l) : l \in Lists(DOMAIN TypeFragments, MaxFragments)}

TypologyInputs ==
    {UndefinedStr, Str(""), Str("T2 apartamento"), Str("chalet")}

\* Feature labels, by name: one or more per amenity, and one that names
\* none.
AmenityLabels ==
    [ piscina |-> "Piscina privada", garagem |-> "Garagem",
      estacionamento |-> "Estacionamento", jardim |-> "Jardim",
      varanda |-> "Varanda", terraco |-> "Terraço", elevador |-> "Elevador",
      cave |-> "Cave", lareira |-> "Lareira", mobilado |-> "Mobilado",
      obra |-> "Obra nova", luxo |-> "Luxo", vista |-> "Vista mar",
      garage |-> "GARAGE", swimming |-> "swimming pool" ]

FeatureInputs == Lists(DOMAIN AmenityLabels, MaxLabels)

\* The feature list of the named labels.
Features(names) == [i \in 1..Len(names) |-> AmenityLabels[names[i]]]

\* item.price and item.priceInfo.price.amount: absent, zero, positive,
\* negative.
PriceInputs == {Undefined} \cup {Num(v) : v \in (0 - MaxPrice)..MaxPrice}

\* The fields of an IdealistaPropertyItem that parsePropertyItem's id,
\* price, type, floor and city are computed from.
Items ==
    [ propertyCode : {UndefinedStr, Str(""), Str("33445566")},
      externalReference : {UndefinedStr, Str(""), Str("REF-7")},
      price : PriceInputs,
      amount : PriceInputs,
      propertyType : {UndefinedStr, Str("Apartamento")},
      typology : {UndefinedStr},
      floor : {UndefinedStr, Str("3")},
      municipality : {UndefinedStr, Str("Cascais")} ]

\* An item with a price and nothing else.
BareItem ==
    [ propertyCode |-> UndefinedStr, externalReference |-> UndefinedStr,
      price |-> Num(1), amount |-> Undefined, propertyType |-> UndefinedStr,
      typology |-> UndefinedStr, floor |-> UndefinedStr,
      municipality |-> UndefinedStr ]

\* A well-typed element holding the item.
Object(item) == [null |-> FALSE, floorNumber |-> Undefined, item |-> item]

\* Elements of an elementList, by name: items with a propertyCode, with an
\* externalReference, with neither (two that differ in their municipality),
\* items whose floor is the number 3 or the number 0, and null.
Elements ==
    [ coded |-> Object([BareItem EXCEPT !.propertyCode = Str("33445566")]),
      referenced |->
          Object([BareItem EXCEPT !.externalReference = Str("REF-7")]),
      bare |-> Object(BareItem),
      cascais |-> Object([BareItem EXCEPT !.municipality = Str("Cascais")]),
      floor3 |->
          [Object([BareItem EXCEPT !.propertyCode = Str("11223344")])
              EXCEPT !.floorNumber = Num(3)],
      floor0 |->
          [Object([BareItem EXCEPT !.propertyCode = Str("55667788")])
              EXCEPT !.floorNumber = Num(0)],
      null |-> [null |-> TRUE, floorNumber |-> Undefined, item |-> BareItem] ]

ElementLists == Lists(DOMAIN Elements, MaxItems)

\* The elementList of the named elements.
ElementList(names) == [i \in 1..Len(names) |-> Elements[names[i]]]

\* The page fields of an IdealistaSearchData: 0 stands for an absent or
\* zero field, both falsy.
SearchData ==
    [ currentPage : 0..MaxTotalPages, actualPage : 0..MaxTotalPages,
      totalPages : 0..MaxTotalPages ]

\* The delay options of a scraper (whole milliseconds: the constructor's
\* defaults and main's values are 2000 and 4000) and what Math.random()
\* gives, in steps.
DelayInputs ==
    [ minDelayMs : 0..MaxDelayMs, maxDelayMs : 0..MaxDelayMs,
      random : 0..(RandomSteps - 1) ]

(* --------------------------------------------- calls of the pure functions *)

\* The crawl's variables.
crawlVars == <<job, ready, pc, locIdx, total, locLimit, page, allProperties,
               last, returned, output, fetched, stop, started, outcomes,
               paced, blockedAt>>

\* Date.now(): the clock reads what it read last, or something later.
ClockReadings == clock..MaxClock

\* A call that has not run yet.
Pending(fn, arg) ==
    [fn |-> fn, arg |-> arg, returned |-> FALSE, at |-> 0, out |-> "none"]

\* The call has run when the clock read now, and returned out.
Returns(c, now, out) ==
    [c EXCEPT !.returned = TRUE, !.at = now, !.out = out]

\* The calls to be made, one per input.
Calls ==
    {Pending("parseFloor", floor) : floor \in FloorInputs}
    \cup {Pending("mapPropertyType",
                  [propertyType |-> propertyType, typology |-> typology]) :
             propertyType \in PropertyTypeInputs, typology \in TypologyInputs}
    \cup {Pending("extractAmenities", features) : features \in FeatureInputs}
    \cup {Pending("parsePropertyItem", [item |-> item, location |-> "lisboa"]) :
             item \in Items}
    \cup {Pending("hasNextPage", searchData) : searchData \in SearchData}
    \cup {Pending(fn, input) :
             fn \in {"scrapePage.delay", "scrapeLocation.delay"},
             input \in DelayInputs}
    \cup {Pending("parseNextData",
                  [elementList |-> names, location |-> "lisboa"]) :
             names \in ElementLists}

\* parseFloor runs on its floor text.
ParseFloor ==
    /\ call.fn = "parseFloor" /\ ~call.returned
    /\ call' = Returns(call, clock,
                       parseFloor(Text(FloorFragments, call.arg)))
    /\ UNCHANGED <<clock, prev, proc, crawlVars>>

\* mapPropertyType runs on its two texts.
MapPropertyType ==
    /\ call.fn = "mapPropertyType" /\ ~call.returned
    /\ call' = Returns(call, clock,
                       mapPropertyType(Text(TypeFragments,
                                            call.arg.propertyType),
                                       call.arg.typology))
    /\ UNCHANGED <<clock, prev, proc, crawlVars>>

\* extractAmenities runs on its feature list.
ExtractAmenities ==
    /\ call.fn = "extractAmenities" /\ ~call.returned
    /\ call' = Returns(call, clock, extractAmenities(Features(call.arg)))
    /\ UNCHANGED <<clock, prev, proc, crawlVars>>

\* parsePropertyItem runs on its item.
ParsePropertyItem ==
    /\ call.fn = "parsePropertyItem" /\ ~call.returned
    /\ \E now \in ClockReadings :
         /\ clock' = now
         /\ call' = Returns(call, now,
                            parsePropertyItem(call.arg.item,
                                              call.arg.location, now))
    /\ UNCHANGED <<prev, proc, crawlVars>>

\* parsePropertyItem runs once more on the same item.
ParseAgain ==
    /\ call.fn = "parsePropertyItem" /\ call.returned
    /\ prev = NoCall
    /\ prev' = call
    /\ \E now \in ClockReadings :
         /\ clock' = now
         /\ call' = Returns(call, now,
                            parsePropertyItem(call.arg.item,
                                              call.arg.location, now))
    /\ UNCHANGED <<proc, crawlVars>>

\* The readings of Date.now() in n calls one after the other: none is
\* earlier than the one before.
Readings(n) ==
    {nows \in [1..n -> ClockReadings] :
        \A i \in 1..n, j \in 1..n : i < j => nows[i] <= nows[j]}

\* parseNextData runs on its elementList.
ParseNextData ==
    /\ call.fn = "parseNextData" /\ ~call.returned
    /\ \E nows \in Readings(Len(call.arg.elementList)) :
         LET now == IF nows = <<>> THEN clock ELSE nows[Len(nows)]
         IN  /\ clock' = now
             /\ call' = Returns(call, now,
                                parseNextData(ElementList(call.arg.elementList),
                                              call.arg.location, nows))
    /\ UNCHANGED <<prev, proc, crawlVars>>

\* hasNextPage runs on the snapshot's searchData.
HasNextPage ==
    /\ call.fn = "hasNextPage" /\ ~call.returned
    /\ call' = Returns(call, clock, hasNextPage(call.arg))
    /\ UNCHANGED <<clock, prev, proc, crawlVars>>

\* scrapePage computes its in-page wait.
PageDelay ==
    /\ call.fn = "scrapePage.delay" /\ ~call.returned
    /\ call' = Returns(call, clock,
                       delay(call.arg.minDelayMs, call.arg.maxDelayMs,
                             call.arg.random))
    /\ UNCHANGED <<clock, prev, proc, crawlVars>>

\* scrapeLocation computes the delay between two pages.
InterPageDelay ==
    /\ call.fn = "scrapeLocation.delay" /\ ~call.returned
    /\ call' = Returns(call, clock,
                       delay(call.arg.minDelayMs, call.arg.maxDelayMs,
                             call.arg.random))
    /\ UNCHANGED <<clock, prev, proc, crawlVars>>

(* ------------------------------------------------------------------ main *)

\* What main and the signal handlers leave alone: everything but the
\* process, the crawl's position and the scraper's page.
mainFrame == <<job, locIdx, total, locLimit, page, allProperties, last,
               returned, output, fetched, stop, started, outcomes, paced,
               blockedAt, clock, call, prev>>

\* The --transactionType values: a valid one and an invalid one.
TransactionTypes == {"sale", "buy"}

\* The calls main makes: scrapeLocation on the --location option, or
\* scrapeLocations on the first entries of PORTUGUESE_LOCATIONS, which are
\* distinct; --maxPages and --limit are handed over as parsed.
MainJobs ==
    {j \in Jobs : j.entry = "scrapeLocations" =>
                      j.locations = <<"lisboa", "porto">>}

\* The process as main starts: options parsed, nothing done yet.
Processes ==
    [mpc : {"start"}, dryRun : BOOLEAN, transactionType : TransactionTypes,
     exit : {Undefined}, interrupted : {"none"}, stored : {<<>>},
     dumped : {<<>>}, closed : {FALSE}, released : {{}}, redis : {"off"},
     signal : {"none"}, held : {<<>>}]

\* The process is alive.
Running == proc.mpc \notin {"none", "exited"}

\* process.exit(code): the process ends where it is; no finally block runs.
Exit(p, code) ==
    [p EXCEPT !.mpc = "exited", !.exit = Num(code), !.interrupted = pc]

\* The sink's answers: connectRedis and saveProperties resolve or reject.
SinkAnswers == {"resolves", "rejects"}

\* main validates the transaction type.
Validate ==
    /\ proc.mpc = "start"
    /\ IF proc.transactionType \notin {"sale", "rent"}
       THEN proc' = Exit(proc, 1) /\ pc' = "exited"
       ELSE proc' = [proc EXCEPT !.mpc = "initialize"] /\ pc' = pc
    /\ UNCHANGED <<ready, mainFrame>>

\* await scraper.initialize(): the browser starts, or the call throws.
Initialize ==
    /\ proc.mpc = "initialize"
    /\ \E launched \in BOOLEAN :
         IF launched
         THEN /\ ready' = TRUE
              /\ pc' = "main"
              /\ proc' = [proc EXCEPT !.mpc = "scraping"]
         ELSE /\ ready' = ready
              /\ pc' = pc
              /\ proc' = [proc EXCEPT !.mpc = "caught"]
    /\ UNCHANGED mainFrame

\* Mutant: the dry-run option is not looked at.
skipsStoreNever(p) == FALSE

\* if (opts.dryRun)
skipsStore(p) == p.dryRun

\* After the crawl returned: exit 1 on an empty result, else the dry-run
\* dump or the way to the store.
Results ==
    /\ proc.mpc = "scraping"
    /\ pc = "done"
    /\ IF output = <<>>
       THEN proc' = Exit(proc, 1) /\ pc' = "exited"
       ELSE IF skipsStore(proc)
       THEN proc' = [proc EXCEPT !.dumped = output, !.mpc = "closing"]
            /\ pc' = pc
       ELSE proc' = [proc EXCEPT !.mpc = "connect"] /\ pc' = pc
    /\ UNCHANGED <<ready, mainFrame>>

\* await connectRedis(process.env.REDIS_URL)
ConnectRedis ==
    /\ proc.mpc = "connect"
    /\ \E answer \in SinkAnswers :
         proc' = IF answer = "resolves"
                 THEN [proc EXCEPT !.redis = "connected", !.mpc = "save"]
                 ELSE [proc EXCEPT !.mpc = "storeFailed"]
    /\ UNCHANGED <<ready, pc, mainFrame>>

\* await saveProperties(properties)
SaveProperties ==
    /\ proc.mpc = "save"
    /\ \E answer \in SinkAnswers :
         proc' = IF answer = "resolves"
                 THEN [proc EXCEPT !.stored = output, !.mpc = "disconnect"]
                 ELSE [proc EXCEPT !.mpc = "storeFailed"]
    /\ UNCHANGED <<ready, pc, mainFrame>>

\* The inner catch block: the results go to the console instead.
StoreFailed ==
    /\ proc.mpc = "storeFailed"
    /\ proc' = [proc EXCEPT !.dumped = output, !.mpc = "disconnect"]
    /\ UNCHANGED <<ready, pc, mainFrame>>

\* The inner finally block: await disconnectRedis()
DisconnectRedis ==
    /\ proc.mpc = "disconnect"
    /\ proc' = [proc EXCEPT !.redis = "disconnected", !.mpc = "closing"]
    /\ UNCHANGED <<ready, pc, mainFrame>>

\* The outer catch block: process.exit(1)
Caught ==
    /\ proc.mpc = "caught"
    /\ proc' = Exit(proc, 1)
    /\ pc' = "exited"
    /\ UNCHANGED <<ready, mainFrame>>

\* What can go wrong in close(): nothing, or the close() of one handle
\* rejects.
CloseFailures == {"none", "page", "context", "browser"}

\* close(): page, context and browser are closed one after the other, each
\* awaited, with no try block: the first close() that rejects ends the
\* method, and the handles after it stay open.  The fields are not reset.
close(failing) ==
    IF failing = "page" THEN {}
    ELSE IF failing = "context" THEN {"page"}
    ELSE IF failing = "browser" THEN {"page", "context"}
    ELSE {"page", "context", "browser"}

\* The outer finally block: await scraper.close(); main returns and the
\* process ends with status 0, or close() rejects, main() rejects with it
\* and main().catch ends the process with status 1.
Close ==
    /\ proc.mpc = "closing"
    /\ \E failing \in CloseFailures :
         proc' = [Exit(proc, IF failing = "none" THEN 0 ELSE 1)
                     EXCEPT !.closed = TRUE, !.released = close(failing)]
    /\ pc' = "exited"
    /\ UNCHANGED <<ready, mainFrame>>

\* SIGINT or SIGTERM arrives: the handler logs and awaits disconnectRedis();
\* main goes on meanwhile.  held notes the records the crawl holds now.
Signal ==
    /\ Running
    /\ proc.signal = "none"
    /\ proc' = [proc EXCEPT !.signal = "handling",
                            !.held = IF pc \in {"boot", "main", "done"}
                                     THEN <<>> ELSE total \o allProperties]
    /\ UNCHANGED <<ready, pc, mainFrame>>

\* The handler's disconnectRedis() has settled: process.exit(0)
SignalExit ==
    /\ Running
    /\ proc.signal = "handling"
    /\ proc' = [Exit(proc, 0) EXCEPT !.redis = "disconnected",
                                     !.signal = "handled"]
    /\ pc' = "exited"
    /\ UNCHANGED <<ready, mainFrame>>

(* --------------------------------------------------- the scraper's client *)

\* A client calls initialize(): the browser, context and page handles are
\* set anew, or the launch throws and the fields stay as they were.
ClientInitialize ==
    /\ pc = "client"
    /\ \E launched \in BOOLEAN :
         IF launched
         THEN /\ ready' = TRUE
              /\ proc' = [proc EXCEPT !.closed = FALSE, !.released = {}]
         ELSE UNCHANGED <<ready, proc>>
    /\ UNCHANGED <<pc, mainFrame>>

\* A client calls close(): the handles that are set are closed; the fields
\* keep pointing at them.
ClientClose ==
    /\ pc = "client"
    /\ \E failing \in CloseFailures :
         proc' = [proc EXCEPT !.closed = TRUE,
                              !.released = IF ready THEN close(failing)
                                           ELSE {}]
    /\ UNCHANGED <<ready, pc, mainFrame>>

\* A client calls scrapePage: call notes the scraper it was called on and
\* how it started; a page.goto on a closed page throws.
ClientScrapePage ==
    /\ pc = "client"
    /\ \E pageNumber \in 1..MaxPageCap, transport \in Transport,
          challenge \in bypassDataDome :
         \E doc \in Served(challenge) :
            /\ page' = pageNumber
            /\ last' = IF "page" \in proc.released
                       THEN scrapePage(ready, "gotoFails", challenge, doc,
                                       1, pageNumber)
                       ELSE scrapePage(ready, transport, challenge, doc,
                                       1, pageNumber)
    /\ call' = [fn |-> "scrapePage",
                arg |-> [initialized |-> ready, closed |-> proc.closed,
                         released |-> "page" \in proc.released],
                returned |-> TRUE, at |-> clock, out |-> guard(ready)]
    /\ UNCHANGED <<job, ready, pc, locIdx, total, locLimit, allProperties,
                   returned, output, fetched, stop, started, outcomes, paced,
                   blockedAt, clock, prev, proc>>

(* --------------------------------------------------------- specification *)

Next ==
    \/ CallScrapeLocation
    \/ PageLoop
    \/ ScrapePage
    \/ HandleResult
    \/ PagePacing
    \/ HandleError
    \/ Finish
    \/ CallScrapeLocations
    \/ LocationLoop
    \/ AfterLocation
    \/ LocationPacing

Spec == Init /\ [][Next]_vars

\* The run is a single thread of control that is never suspended for good:
\* every await settles, so a step that can be taken is taken.
FairSpec == Spec /\ WF_vars(Next)

\* The pure functions of parser, transformer and scraper on their own, each
\* called on one of its inputs: no crawl is running.
NormalizerInit ==
    /\ job = [entry |-> "none", locations |-> <<>>, maxPages |-> 0,
              limit |-> Undefined]
    /\ ready = FALSE
    /\ pc = "idle"
    /\ locIdx = 0
    /\ total = <<>>
    /\ locLimit = Undefined
    /\ page = 0
    /\ allProperties = <<>>
    /\ last = NoResult
    /\ returned = <<>>
    /\ output = <<>>
    /\ fetched = <<>>
    /\ stop = "none"
    /\ started = <<>>
    /\ outcomes = <<>>
    /\ paced = FALSE
    /\ blockedAt = 0
    /\ clock = 0
    /\ call \in Calls
    /\ prev = NoCall
    /\ proc = NoProcess

NormalizerNext ==
    \/ ParseFloor
    \/ MapPropertyType
    \/ ExtractAmenities
    \/ ParsePropertyItem
    \/ ParseAgain
    \/ ParseNextData
    \/ HasNextPage
    \/ PageDelay
    \/ InterPageDelay

NormalizerSpec == NormalizerInit /\ [][NormalizerNext]_vars

\* A client of the IdealistaScraper class calls initialize, scrapePage and
\* close in any order.
ScraperInit ==
    /\ job = [entry |-> "none", locations |-> <<>>, maxPages |-> 0,
              limit |-> Undefined]
    /\ ready = FALSE
    /\ pc = "client"
    /\ locIdx = 0
    /\ total = <<>>
    /\ locLimit = Undefined
    /\ page = 0
    /\ allProperties = <<>>
    /\ last = NoResult
    /\ returned = <<>>
    /\ output = <<>>
    /\ fetched = <<>>
    /\ stop = "none"
    /\ started = <<>>
    /\ outcomes = <<>>
    /\ paced = FALSE
    /\ blockedAt = 0
    /\ clock = 0
    /\ call = NoCall
    /\ prev = NoCall
    /\ proc = NoProcess

ScraperNext ==
    \/ ClientInitialize
    \/ ClientClose
    \/ ClientScrapePage

ScraperSpec == ScraperInit /\ [][ScraperNext]_vars

\* The command-line process: main around the crawl, and the signal handlers.
MainInit ==
    /\ job \in MainJobs
    /\ ready = FALSE
    /\ pc = "boot"
    /\ locIdx = 0
    /\ total = <<>>
    /\ locLimit = Undefined
    /\ page = 0
    /\ allProperties = <<>>
    /\ last = NoResult
    /\ returned = <<>>
    /\ output = <<>>
    /\ fetched = <<>>
    /\ stop = "none"
    /\ started = <<>>
    /\ outcomes = <<>>
    /\ paced = FALSE
    /\ blockedAt = 0
    /\ clock = 0
    /\ call = NoCall
    /\ prev = NoCall
    /\ proc \in Processes

MainNext ==
    \/ Validate
    \/ Initialize
    \/ Next
    \/ Results
    \/ ConnectRedis
    \/ SaveProperties
    \/ StoreFailed
    \/ DisconnectRedis
    \/ Caught
    \/ Close
    \/ Signal
    \/ SignalExit

MainSpec == MainInit /\ [][MainNext]_vars

(* ---------------------------------------------------------------- claims *)

\* The current scrapeLocation call has left its page loop and returned.
HasReturned == stop # "none" /\ pc # "finish"

\* The scrapeLocation call is still in its page loop.
InPageLoop ==
    pc \in {"pageLoop", "scrapePage", "gotResult", "caught", "pagePacing"}

\* The run is on its way to another fetch of this location.
Continuing == pc \in {"pageLoop", "scrapePage", "pagePacing"}

\* The page index of the latest fetch of this location run (0: none yet).
LastFetched == IF fetched = <<>> THEN 0 ELSE fetched[Len(fetched)]

\* C1: with a record limit L >= 1, scrapeLocation never returns more than L
\* records; once the accumulated count is >= L after a page, the page loop
\* is left (no further fetch) and exactly L records are returned.
C1_RecordLimit ==
    (locLimit.set /\ locLimit.val >= 1) =>
        /\ HasReturned => Len(returned) <= locLimit.val
        /\ (Len(allProperties) >= locLimit.val /\ pc # "gotResult") =>
               /\ ~InPageLoop
               /\ stop = "limit"
               /\ HasReturned => Len(returned) = locLimit.val

\* A first page with more items than the limit, cut to it after one fetch.
C1_Witness ==
    /\ HasReturned
    /\ locLimit.set /\ locLimit.val >= 1
    /\ Len(fetched) = 1
    /\ Len(allProperties) > locLimit.val
    /\ Len(returned) = locLimit.val

\* C2: once the challenge met on page k is still unresolved after the
\* mitigation pass, the location run issues no fetch for a page above k.
C2_BlockStopsLocation ==
    blockedAt # 0 => \A i \in 1..Len(fetched) : fetched[i] <= blockedAt

\* C3 as stated: after a fetch failed with a transport or timeout error, no
\* fetch of a higher page index of that location follows.
C3_NoFetchPastFailure ==
    (ready /\ last.threw /\ ~last.blocked /\ pc = "scrapePage") =>
        page <= LastFetched

\* C3 as amended: after a fetch failed with an error that is not a block,
\* the same page is never fetched again; the run goes on with the next page
\* index while that is within the page cap and ends the location only when
\* the failed page was the last one the cap allows.
C3_FailureSkipsPage ==
    (last.threw /\ ~last.blocked) =>
        /\ \A i \in 1..Len(fetched) : fetched[i] = i
        /\ Len(fetched) <= job.maxPages
        /\ pc = "scrapePage" => page = LastFetched + 1
        /\ pc = "pageLoop" => page = LastFetched + 1
        /\ pc # "pagePacing"
        /\ (stop # "none") => (stop = "pageCap" /\ LastFetched = job.maxPages)

\* The next page is about to be fetched right after a failed one.
C3_Witness ==
    /\ last.threw /\ ~last.blocked
    /\ ready
    /\ pc = "scrapePage"
    /\ page = LastFetched + 1

\* C4: whatever the page outcomes are, a location run issues at most
\* maxPages fetches, and the entry call (scrapeLocation or scrapeLocations)
\* eventually returns its record list.
C4_Terminates ==
    /\ [](Len(fetched) <= Max(job.maxPages, 0))
    /\ <>(pc = "done")

\* A run on an uninitialized scraper: every fetch threw, and an empty
\* list came back.
C4_Witness ==
    /\ pc = "done"
    /\ ~ready
    /\ Len(fetched) = job.maxPages
    /\ job.maxPages >= 2
    /\ output = <<>>

\* C5: in one location run the first fetch asks for page 1, each further
\* fetch for the previous index plus 1, and none for an index above maxPages.
C5_PageIndex ==
    /\ \A i \in 1..Len(fetched) : fetched[i] = i /\ i <= job.maxPages
    /\ pc \in {"pageLoop", "scrapePage"} => page = Len(fetched) + 1
    /\ pc = "scrapePage" => page <= job.maxPages

\* A second fetch, after a first one that failed or that had a next page.
C5_Witness == Len(fetched) >= 2 /\ allProperties # <<>>

\* The latest fetch returned a snapshot that was found and holds no items.
EmptySnapshot ==
    ~last.threw /\ last.container = "json" /\ last.properties = <<>>

\* The latest fetch returned from a document without usable embedded state.
MissingState ==
    ~last.threw /\ last.container \in {"absent", "empty", "malformed"}

\* C6: a snapshot with zero items and hasNextPage = true does not stop the
\* location run (below the page cap the next page is fetched); a snapshot
\* with zero items and hasNextPage = false stops it with no further fetch.
C6_EmptyPage ==
    (EmptySnapshot /\ pc # "gotResult") =>
        /\ (last.hasNextPage /\ last.currentPage < job.maxPages) =>
               /\ Continuing
               /\ stop = "none"
               /\ pc = "scrapePage" => page = last.currentPage + 1
        /\ ~last.hasNextPage => (~Continuing /\ stop # "none")

\* C7 as stated: a page whose document has no container, or one that does
\* not parse, never ends the location run by itself below the page cap.
C7_NoDataGoesOn ==
    (MissingState /\ last.challenge = "clear"
        /\ last.currentPage < job.maxPages) => stop # "noMorePages"

\* C7 as amended: a page whose document has no container, or one that does
\* not parse, raises nothing and adds no records, and is reported with no
\* next page: it ends the crawl of that location (no further page of it is
\* fetched) and leaves the records of the earlier pages in the result.
C7_NoDataEndsLocation ==
    (last.container \in {"absent", "empty", "malformed"}) =>
        /\ ~last.threw
        /\ last.properties = <<>>
        /\ ~last.hasNextPage
        /\ \A i \in 1..Len(allProperties) :
               allProperties[i][2] # last.currentPage
        /\ ~Continuing
        /\ stop \in {"none", "noMorePages", "limit"}
        /\ (stop = "noMorePages" /\ HasReturned) => returned = allProperties

\* An unparsable page 2 below the page cap ended the run, page 1's records kept.
C7_Witness ==
    /\ last.container = "malformed"
    /\ last.challenge = "clear"
    /\ last.currentPage = 2
    /\ last.currentPage < job.maxPages
    /\ HasReturned
    /\ stop = "noMorePages"
    /\ returned # <<>>

\* The job's bounds are invalid: page cap below 1, or a limit set below 1.
InvalidJob ==
    \/ job.maxPages < 1
    \/ job.limit.set /\ job.limit.val < 1

\* C8: a job with invalid bounds is rejected before any page fetch: no fetch
\* is issued and no records are returned for it.
C8_InvalidJobRejected ==
    InvalidJob => ((ready => fetched = <<>>) /\ output = <<>>)

\* The location run stopped on a block, or on a fetch that failed.
StoppedOnFailure ==
    /\ HasReturned
    /\ \/ stop = "blocked"
       \/ last.challenge = "unresolved"
       \/ stop = "pageCap" /\ last.threw

\* C9: when a location run stops on a block or a failed fetch, every record
\* accumulated from the earlier pages is in the returned list.
C9_RecordsPreserved ==
    StoppedOnFailure =>
        /\ returned = allProperties
        /\ outcomes[Len(outcomes)].records = allProperties

\* A block on a later page, with the records of an earlier page returned.
C9_Witness ==
    /\ StoppedOnFailure
    /\ stop = "blocked"
    /\ allProperties # <<>>
    /\ returned = allProperties

RECURSIVE Concat(_)
\* The concatenation of the record lists of a sequence of outcomes.
Concat(os) ==
    IF os = <<>> THEN <<>>
    ELSE Concat(SubSeq(os, 1, Len(os) - 1)) \o os[Len(os)].records

\* C10: scrapeLocations crawls the locations in list order, each finished
\* before the next starts; a block or failure in one does not keep the
\* following ones from being crawled; the sequence ends early only when the
\* overall limit is reached; the result is the per-location results
\* concatenated in list order.
C10_LocationsInOrder ==
    job.entry = "scrapeLocations" =>
        /\ \A i \in 1..Len(started) : started[i] = i
        /\ Len(started) <= Len(job.locations)
        /\ Len(outcomes) = IF InPageLoop \/ pc = "finish"
                           THEN Len(started) - 1 ELSE Len(started)
        /\ total = IF pc = "afterLocation"
                   THEN Concat(SubSeq(outcomes, 1, Len(outcomes) - 1))
                   ELSE Concat(outcomes)
        /\ pc = "done" =>
               /\ output = Concat(outcomes)
               /\ \/ Len(started) = Len(job.locations)
                  \/ /\ job.limit.set /\ job.limit.val # 0
                     /\ Len(output) >= job.limit.val

\* The first location was blocked, the second was crawled and gave records.
C10_Witness ==
    /\ job.entry = "scrapeLocations"
    /\ pc = "done"
    /\ Len(outcomes) = 2
    /\ outcomes[1].stop = "blocked"
    /\ outcomes[2].records # <<>>
    /\ output = outcomes[2].records

\* C11: in scrapeLocations with an overall limit L >= 1 the accumulated
\* count never exceeds L after a location has been added, every scrapeLocation
\* call is handed a per-location limit of at least 1, and the final result
\* holds at most L records.
C11_OverallLimit ==
    (job.entry = "scrapeLocations" /\ job.limit.set /\ job.limit.val >= 1) =>
        /\ Len(total) <= job.limit.val
        /\ started # <<>> => (locLimit.set /\ locLimit.val >= 1)
        /\ started # <<>> => locLimit.val = job.limit.val - Len(total)
                              \/ pc \in {"locPacing", "locLoop", "done"}
        /\ pc = "done" => Len(output) <= job.limit.val

\* Two locations both gave records; the second one's list was cut by its
\* per-location limit and the result holds exactly L records.
C11_Witness ==
    /\ job.entry = "scrapeLocations"
    /\ job.limit.set /\ job.limit.val >= 1
    /\ pc = "done"
    /\ Len(outcomes) = 2
    /\ outcomes[1].records # <<>>
    /\ outcomes[2].records # <<>>
    /\ Len(allProperties) > Len(returned)
    /\ Len(output) = job.limit.val

\* parsePropertyItem has returned a record.
Parsed == call.fn = "parsePropertyItem" /\ call.returned

\* C12: the record parsePropertyItem makes has a price of at least 0,
\* whatever the item's price and priceInfo.price.amount hold; the price is 0
\* when both are absent.
C12_PriceNeverNegative ==
    Parsed =>
        /\ call.out.price >= 0
        /\ (~call.arg.item.price.set /\ ~call.arg.item.amount.set)
               => call.out.price = 0

\* The item of the latest parsePropertyItem call has a usable propertyCode,
\* or a usable externalReference.
HasCode == TruthyStr(call.arg.item.propertyCode)
HasReference == TruthyStr(call.arg.item.externalReference)

\* C13: the record's identifier is never empty: it is the item's
\* propertyCode when that is non-empty, else its externalReference when that
\* is non-empty, else a synthesized identifier.
C13_IdentifierNeverEmpty ==
    Parsed =>
        /\ call.out.id # ""
        /\ HasCode => call.out.id = call.arg.item.propertyCode.val
        /\ (~HasCode /\ HasReference)
               => call.out.id = call.arg.item.externalReference.val
        /\ (~HasCode /\ ~HasReference)
               => /\ call.out.id \notin {call.arg.item.propertyCode.val,
                                         call.arg.item.externalReference.val}
                  /\ SubSeq(call.out.id, 1, Len("idealista-")) = "idealista-"
                  /\ Len(call.out.id) > Len("idealista-")

\* An item with an empty propertyCode and no externalReference was given a
\* synthesized identifier.
C13_Witness ==
    /\ Parsed
    /\ call.arg.item.propertyCode = Str("")
    /\ call.arg.item.externalReference = UndefinedStr
    /\ call.out.id = "idealista-" \o toString(call.at)

\* C14: parsePropertyItem called twice on the same item and location, at any
\* two moments, gives records equal in every field, the identifier and the
\* capture timestamp included.
C14_SameRecordAtAnyTime ==
    (Parsed /\ prev # NoCall /\ prev.arg = call.arg) => prev.out = call.out

\* extractAmenities has returned its flags.
Inferred == call.fn = "extractAmenities" /\ call.returned

\* Some label of the list, lower-cased, contains a term of the flag.
LabelNames(features, flag) ==
    \E i \in 1..Len(features) :
        LET label == toLowerCase(features[i])
        IN  \E term \in AmenityTerms[flag] : includes(label, term)

\* The feature list extractAmenities was called on.
Labels == Features(call.arg)

\* The feature list of the specification's example.
PoolAndGarage == <<"Piscina privada", "Garagem">>

\* C15, as stated: each flag is true exactly when some lower-cased label
\* contains one of its synonyms, and the list ["Piscina privada", "Garagem"]
\* gives has_pool and has_garage true and every other flag false.
C15_PoolAndGarageOnly ==
    Inferred =>
        /\ \A flag \in DOMAIN call.out :
               call.out[flag] <=> LabelNames(Labels, flag)
        /\ Labels = PoolAndGarage =>
               \A flag \in DOMAIN call.out :
                   call.out[flag] <=> flag \in {"has_pool", "has_garage"}

\* C15, amended: each of the twelve flags is true exactly when some
\* lower-cased label contains one of its synonyms; a label may set several
\* flags, so the list ["Piscina privada", "Garagem"] gives has_pool,
\* has_garage and has_parking true (garagem is a parking term too) and every
\* other flag false.
C15_AmenityFlags ==
    Inferred =>
        /\ DOMAIN call.out =
               {"has_parking", "has_garden", "has_balcony", "has_terrace",
                "has_pool", "has_elevator", "has_garage", "has_basement",
                "has_fireplace", "is_furnished", "is_new_construction",
                "is_luxury"}
        /\ \A flag \in DOMAIN call.out :
               call.out[flag] <=> LabelNames(Labels, flag)
        /\ Labels = PoolAndGarage =>
               \A flag \in DOMAIN call.out :
                   call.out[flag] <=>
                       flag \in {"has_pool", "has_garage", "has_parking"}
        /\ Labels = <<"GARAGE">> =>
               (call.out.has_garage /\ call.out.has_parking)
        /\ Labels = <<"Vista mar">> =>
               \A flag \in DOMAIN call.out : ~call.out[flag]

\* The example list has been classified.
C15_Witness ==
    /\ Inferred
    /\ Labels = PoolAndGarage
    /\ call.out.has_pool /\ call.out.has_garage /\ ~call.out.has_garden

\* parseFloor has returned.
Floored == call.fn = "parseFloor" /\ call.returned

\* The floor text parseFloor was called on.
Floor == Text(FloorFragments, call.arg)

\* The text contains one of the terms.
Names(text, terms) == \E term \in terms : includes(text, term)

\* n is the value of the first run of digits of the text.
FirstInteger(text, n) ==
    \E i \in 1..Len(text), j \in 1..Len(text) :
        /\ i <= j
        /\ \A k \in 1..j : isDigit(charAt(text, k)) <=> k >= i
        /\ j < Len(text) => ~isDigit(charAt(text, j + 1))
        /\ parseInt(SubSeq(text, i, j)) = n

\* C16: parseFloor lower-cases its text and answers, in this order of
\* precedence: 0 for a ground-floor term, -1 for a basement term, 99 for an
\* attic term, else the first embedded integer, else nothing; "R/C" gives 0,
\* "Cave" -1, "3º andar" 3, "Sótão" 99, and "" nothing.
C16_FloorPrecedence ==
    Floored =>
        LET text == toLowerCase(Floor.val)
            ground == Names(text, {"r/c", "rés", "térr"})
            basement == Names(text, {"cave", "subsolo"})
            attic == Names(text, {"sótão", "ático"})
            number == \E i \in 1..Len(text) : isDigit(charAt(text, i))
        IN  /\ ~TruthyStr(Floor) => call.out = Undefined
            /\ ground => call.out = Num(0)
            /\ (~ground /\ basement) => call.out = Num(-1)
            /\ (~ground /\ ~basement /\ attic) => call.out = Num(99)
            /\ (~ground /\ ~basement /\ ~attic /\ number)
                   => (call.out.set /\ FirstInteger(text, call.out.val))
            /\ (~ground /\ ~basement /\ ~attic /\ ~number)
                   => call.out = Undefined
            /\ Floor = Str("R/C") => call.out = Num(0)
            /\ Floor = Str("Cave") => call.out = Num(-1)
            /\ Floor = Str("3º andar") => call.out = Num(3)
            /\ Floor = Str("Sótão") => call.out = Num(99)
            /\ Floor = Str("") => call.out = Undefined
            /\ Floor = Str("x12") => call.out = Num(12)

\* A text that names the basement and holds a number was given -1.
C16_Witness ==
    /\ Floored
    /\ Floor = Str("Cave3")
    /\ call.out = Num(-1)

\* mapPropertyType has returned.
Typed == call.fn = "mapPropertyType" /\ call.returned

\* The propertyType text mapPropertyType was called on.
PropertyType == Text(TypeFragments, call.arg.propertyType)

\* The kinds in the order of the claim.
KindOrder ==
    <<"apartment", "villa", "house", "penthouse", "duplex", "studio", "loft",
      "office", "commercial", "garage", "parking", "building", "land">>

\* The result is the first kind of the order with a synonym in one of the
\* texts, lower-cased, and 'other' exactly when no kind has one.
FirstKindIn(texts, kind) ==
    LET occurs(k) ==
            \E text \in texts : Names(toLowerCase(text),
                                      PropertyTypeChain[k].terms)
        ks == {k \in 1..Len(KindOrder) : occurs(k)}
    IN  /\ kind = "other" <=> ks = {}
        /\ ks # {} => \E k \in ks : /\ kind = KindOrder[k]
                                   /\ \A j \in ks : k <= j

\* C17, as stated: mapPropertyType returns the first kind of the order one of
\* whose synonyms occurs, whatever the case, in the item's type information,
\* propertyType and typology, and 'other' exactly when none occurs.
C17_FirstKindOfBothTexts ==
    Typed => FirstKindIn({PropertyType.val, call.arg.typology.val},
                         call.out)

\* C17, amended: the text examined is propertyType when it is non-empty,
\* otherwise typology; mapPropertyType returns the first kind of the order
\* one of whose synonyms occurs in that text, whatever the case, and 'other'
\* exactly when none occurs there.
C17_FirstKindOfOneText ==
    Typed =>
        /\ \A k \in 1..Len(KindOrder) : PropertyTypeChain[k].kind = KindOrder[k]
        /\ Len(PropertyTypeChain) = Len(KindOrder)
        /\ FirstKindIn({IF TruthyStr(PropertyType)
                        THEN PropertyType.val
                        ELSE call.arg.typology.val},
                       call.out)
        /\ PropertyType = Str("Penthouse") => call.out = "house"
        /\ PropertyType = Str("Cobertura") => call.out = "penthouse"

\* A propertyType that names no kind hid a typology that names one.
C17_Witness ==
    /\ Typed
    /\ PropertyType = Str("x")
    /\ call.arg.typology = Str("chalet")
    /\ call.out = "other"

\* C18: between two consecutive page fetches of one scrapeLocation call an
\* inter-page pacing delay runs, whatever the outcome of the earlier fetch:
\* no fetch starts directly after the previous one ended.
C18_PacedBetweenFetches ==
    (ready /\ pc = "scrapePage" /\ fetched # <<>>) => paced

\* The positions of a crawl that has started and not returned to main.
CrawlPositions ==
    {"pageLoop", "scrapePage", "gotResult", "caught", "pagePacing", "finish",
     "locLoop", "afterLocation", "locPacing"}

\* A signal arrived while the crawl was in progress and held records, and
\* its handler has ended the process.
InterruptedWithRecords ==
    /\ proc.signal = "handled"
    /\ proc.interrupted \in CrawlPositions
    /\ proc.held # <<>>

\* C19: when SIGINT or SIGTERM arrives while a crawl is in progress and
\* records have been accumulated, the run stops without losing them: they
\* are stored or written out before the process ends.
C19_SignalKeepsRecords ==
    InterruptedWithRecords => (proc.stored # <<>> \/ proc.dumped # <<>>)

\* The current scrapeLocation call made one fetch, which met no challenge
\* and no error and found a snapshot without listings on the only page.
CleanEmptyRun ==
    /\ ready
    /\ pc = "afterLocation"
    /\ fetched = <<1>>
    /\ EmptySnapshot
    /\ last.challenge = "clear"
    /\ stop = "noMorePages"
    /\ returned = <<>>

\* C20: what scrapeLocation returns lets the caller tell a clean run that
\* found nothing from a run whose fetches failed or were blocked: the two
\* never give the same return value.
C20_FailureIsTold ==
    (job.entry = "scrapeLocations" /\ CleanEmptyRun) =>
        \A j \in 1..(Len(outcomes) - 1) :
            outcomes[j].stop = "blocked" => outcomes[j].records # returned

\* C21: with --dryRun no execution of main connects to the store or calls
\* saveProperties; the scraped records are only printed.
C21_DryRunSkipsStore ==
    proc.dryRun =>
        /\ proc.mpc \notin {"connect", "save", "storeFailed", "disconnect"}
        /\ proc.redis # "connected"
        /\ proc.stored = <<>>
        /\ proc.dumped \in {<<>>, output}
        /\ (proc.closed /\ proc.signal = "none") => proc.dumped = output

\* A dry run has scraped records, printed them and ended.
C21_Witness ==
    /\ proc.dryRun
    /\ proc.mpc = "exited"
    /\ proc.closed
    /\ output # <<>>
    /\ proc.dumped = output
    /\ proc.redis = "off"

\* The latest fetch handed a document to extractNextData.
Extracted == last.container # "none"

\* C22: extractNextData yields the parsed state or null for every document,
\* an absent container, an empty container and invalid JSON included, and
\* never throws: no page fetch fails with an exception because of extraction.
C22_ExtractionNeverThrows ==
    /\ \A doc \in Documents : extraction(doc) \in {"null", "data"}
    /\ \A doc \in NoStateDocuments : extraction(doc) = "null"
    /\ Extracted => ~last.threw

\* A fetch whose container held invalid JSON returned a result.
C22_Witness ==
    /\ last.container = "malformed"
    /\ ~last.threw
    /\ pc = "gotResult"

\* C23: when the challenge is still unresolved after the mitigation pass,
\* the fetch reports a Blocked failure and its document is never handed to
\* extraction; extraction happens only on pages whose challenge state is not
\* unresolved.
C23_BlockedBeforeExtraction ==
    last.challenge = "unresolved" =>
        /\ last.threw
        /\ last.blocked
        /\ ~Extracted

\* parseNextData has returned from a call.
Listed == call.fn = "parseNextData" /\ call.returned

\* The named elements parseNextData was called on.
Named == call.arg.elementList

\* The element has a propertyCode or an externalReference.
Identified(name) ==
    \/ TruthyStr(Elements[name].item.propertyCode)
    \/ TruthyStr(Elements[name].item.externalReference)

\* C24: parseNextData returns exactly one record per element of elementList,
\* in the same order: none is dropped, so a page adds as many records as its
\* snapshot has items.
C24_OneRecordPerItem ==
    Listed =>
        /\ Len(call.out) = Len(Named)
        /\ \A i \in 1..Len(Named) :
               Identified(Named[i]) =>
                   call.out[i].id
                       = itemId(Elements[Named[i]].item, call.at)

\* C30: two different items of one run that both lack propertyCode and
\* externalReference receive different synthesized identifiers.
C30_SynthesizedIdsDiffer ==
    (Listed /\ Len(call.out) = Len(Named)) =>
        \A i \in 1..Len(Named), j \in 1..Len(Named) :
            (/\ i # j
             /\ Named[i] # Named[j]
             /\ ~Identified(Named[i])
             /\ ~Identified(Named[j]))
                => call.out[i].id # call.out[j].id

\* C25: the hasNextPage value scrapePage reports is true exactly when the
\* current page index extractSearchMetadata resolves for the same snapshot
\* (currentPage, else actualPage, else 1) is less than the totalPages it
\* resolves (totalPages, else 1).
C25_AgreesWithMetadata ==
    (call.fn = "hasNextPage" /\ call.returned) =>
        LET metadata == extractSearchMetadata(call.arg)
        IN  call.out = (metadata.currentPage < metadata.totalPages)

\* A pacing delay has been computed.
Delayed ==
    /\ call.fn \in {"scrapePage.delay", "scrapeLocation.delay"}
    /\ call.returned

EndedWithBrowser == proc.mpc = "exited" /\ ready

\* C27: on every path by which main ends after the browser was acquired
\* (success, zero results, thrown error, SIGINT/SIGTERM), scraper.close() has
\* run before the process exits, and close() has released page, context and
\* browser even when releasing an earlier one of them failed.
C27_ClosedBeforeExit ==
    EndedWithBrowser =>
        /\ proc.closed
        /\ proc.released = {"page", "context", "browser"}

\* scrapePage has been called by a client.
Scraped == call.fn = "scrapePage" /\ call.returned

\* C29: scrapePage navigates only while the scraper is initialized and not
\* yet closed: called before initialize() or after close(), it fails with
\* the 'Browser not initialized' error and issues no navigation on a missing
\* or released page handle.
C29_NavigatesOnlyWhileOpen ==
    (Scraped /\ (~call.arg.initialized \/ call.arg.closed)) =>
        /\ call.out = "Browser not initialized"
        /\ last.threw

\* The records come from fetched pages of the current location run, page
\* by page in increasing page order, each page's records from its first on
\* in snapshot order, none twice.
PageOrdered(records) ==
    \A i \in 1..Len(records) :
        /\ records[i][1] = started[Len(started)]
        /\ \E k \in 1..Len(fetched) : fetched[k] = records[i][2]
        /\ i = 1 => records[i][3] = 1
        /\ i > 1 =>
               \/ /\ records[i][2] = records[i - 1][2]
                  /\ records[i][3] = records[i - 1][3] + 1
               \/ /\ records[i][2] > records[i - 1][2]
                  /\ records[i][3] = 1

\* The accumulator changes only by taking the whole record list of the page
\* just fetched, after what it holds.
WholePagesAppended ==
    (allProperties' # allProperties /\ allProperties' # <<>>) =>
        /\ pc = "gotResult"
        /\ ~last.threw
        /\ last.currentPage = page
        /\ allProperties' = allProperties \o last.properties

\* C28: at every point of a scrapeLocation run the accumulator, and at the
\* end the returned list, is a prefix of the concatenation, in increasing
\* page-index order, of the record lists of the pages whose fetch succeeded;
\* each fetched page contributes its records at most once and in snapshot
\* order.
C28_PrefixOfFetchedPages ==
    /\ [](started # <<>> => PageOrdered(allProperties))
    /\ [](HasReturned =>
             /\ Len(returned) <= Len(allProperties)
             /\ returned = SubSeq(allProperties, 1, Len(returned)))
    /\ [][WholePagesAppended]_vars

\* Two pages have contributed, and the limit cut the returned list inside
\* the second page's records.
C28_Witness ==
    /\ HasReturned
    /\ Len(fetched) = 2
    /\ Len(returned) < Len(allProperties)
    /\ returned # <<>>
    /\ returned[Len(returned)][2] = 2

\* After a location of scrapeLocations: the delay starts only when another
\* location follows, and the loop goes on without it only when none does.
DelayIffAnotherFollows ==
    pc = "afterLocation" =>
        /\ pc' = "locPacing" => locIdx < Len(job.locations)
        /\ pc' = "locLoop" => locIdx' > Len(job.locations)

\* C31: in scrapeLocations, for any location list, lists with repeated names
\* included, the inter-location delay runs after a location exactly when
\* another location is processed after it: always between two consecutive
\* locations and never after the last location of the list.
C31_DelayBetweenLocations == [][DelayIffAnotherFollows]_vars

====
